---------------------------- MODULE Spec2Model ----------------------------
(***************************************************************************)
(* A model of pangeo-forge-runner's storage-target configuration           *)
(* (pangeo_forge_runner/storage.py), of the meta.yaml schema               *)
(* (pangeo_forge_runner/meta_yaml.py) and of the Feedstock operations the  *)
(* unit test exercises (tests/unit/test_feedstock.py).                     *)
(*                                                                         *)
(* Strings are sequences of tokens.  In a root path the tokens are the     *)
(* characters "{", "}" and "a" and the eight-character word "job_name",    *)
(* so that <<"{", "job_name", "}">> is the placeholder {job_name}.         *)
(***************************************************************************)
EXTENDS Naturals, Sequences, FiniteSets, TLC

VARIABLES
    config,     \* the StorageTargetConfig instance (its traits)
    constructed,\* history: the traits as they were right after construction
    expanded,   \* history: the job names get_forge_target has built a target for
    last,       \* the last call on config and what it returned or raised
    doc,        \* the raw meta.yaml document handed to MetaYaml(**doc)
    meta,       \* the outcome of MetaYaml(**doc)
    feedstock,  \* a Feedstock: its recipes section and the modules beside it
    out         \* the last call on the feedstock and what it returned

vars == <<config, constructed, expanded, last, doc, meta, feedstock, out>>

storageVars == <<config, constructed, expanded, last>>
metaVars == <<doc, meta>>
feedVars == <<feedstock, out>>

----------------------------------------------------------------------------
(* Bounds *)

MaxTemplateLen == 3
MaxArgs == 2

----------------------------------------------------------------------------
(* Strings *)

RECURSIVE SeqsUpTo(_, _)
SeqsUpTo(S, n) ==
    IF n = 0 THEN {<<>>}
    ELSE LET shorter == SeqsUpTo(S, n - 1)
         IN  shorter \cup {Append(s, x) : s \in {t \in shorter : Len(t) = n - 1}, x \in S}

\* sep.join(parts), each part a token sequence
RECURSIVE Join(_, _)
Join(sep, parts) ==
    IF parts = <<>> THEN <<>>
    ELSE IF Len(parts) = 1 THEN parts[1]
    ELSE parts[1] \o sep \o Join(sep, Tail(parts))

Tokens(s) == {s[i] : i \in 1..Len(s)}

----------------------------------------------------------------------------
(* storage.py: the traits of StorageTargetConfig *)

TemplateTokens == {"{", "}", "job_name", "a"}
Templates == SeqsUpTo(TemplateTokens, MaxTemplateLen)

JobNames == {<<"x">>, <<"{", "x">>}

AbstractFileSystem == "AbstractFileSystem"
FsspecClasses == {AbstractFileSystem, "LocalFileSystem"}

\* A value of fsspec_args: its runtime type and its content.
ArgValues == {[type |-> "str", val |-> "hunter2"],
              [type |-> "str", val |-> "t0ken"],
              [type |-> "bool", val |-> "True"]}
ArgKeys == {"key", "secret", "anon"}

\* A dict is a sequence of entries with distinct keys, in insertion order.
DistinctKeys(d) == \A i, j \in 1..Len(d) : d[i].k = d[j].k => i = j
Dicts(K, V, n) == {d \in SeqsUpTo([k : K, v : V], n) : DistinctKeys(d)}

FsspecArgs == Dicts(ArgKeys, ArgValues, MaxArgs)
CredentialKwargs ==
    {<<>>, <<[k |-> "RoleArn", v |-> [type |-> "str", val |-> "arn"]]>>}

\* The traits of a StorageTargetConfig subclass with nothing configured.
StorageTargetConfig(name) ==
    [fsspec_class |-> AbstractFileSystem,
     fsspec_args |-> <<>>,
     root_path |-> <<>>,
     enable_assume_role |-> FALSE,
     assume_role_credential_kwargs |-> <<>>,
     pangeo_forge_target_class |-> name]

InputTargetStorage == StorageTargetConfig("FSSpecInputTarget")
TargetStorage == StorageTargetConfig("FSSpecTarget")
InputCacheStorage == StorageTargetConfig("CacheFSSpecTarget")

Subclasses == {InputTargetStorage, TargetStorage, InputCacheStorage}

\* Every config=True trait may be set at construction.
Configured(base, c, a, r, e, k) ==
    [base EXCEPT !.fsspec_class = c, !.fsspec_args = a, !.root_path = r,
                 !.enable_assume_role = e,
                 !.assume_role_credential_kwargs = k]

\* Configurations for the calls that read the root path: every template, a
\* few fsspec_args.
FewArgs ==
    {<<>>,
     <<[k |-> "anon", v |-> [type |-> "bool", val |-> "True"]],
       [k |-> "secret", v |-> [type |-> "str", val |-> "t0ken"]]>>}

Configs ==
    {Configured(base, c, a, r, e, k) :
        base \in Subclasses, c \in FsspecClasses, a \in FewArgs,
        r \in Templates, e \in BOOLEAN, k \in CredentialKwargs}

\* Configurations for __str__: every fsspec_args, a few root paths.
FewTemplates == {<<>>, <<"a">>, <<"{", "job_name", "}", "a">>}

ConfigsWithArgs ==
    {Configured(base, c, a, r, FALSE, <<>>) :
        base \in Subclasses, c \in FsspecClasses, a \in FsspecArgs,
        r \in FewTemplates}

----------------------------------------------------------------------------
(* storage.py: is_default *)

\* `self.fsspec_class == AbstractFileSystem and not self.root_path`
is_default_ignoring_class(self) == self.root_path = <<>>

is_default(self) ==
    self.fsspec_class = AbstractFileSystem /\ self.root_path = <<>>

----------------------------------------------------------------------------
(* storage.py: __str__ *)

\* type(v).__name__
TypeName(v) == v.type

\* f"{k}=<{type(v).__name__}>"
ArgShownWithValue(e) == <<e.k, "=<", e.v.val, ">">>

ArgFiltered(e) == <<e.k, "=<", TypeName(e.v), ">">>

\* ", ".join(... for k, v in self.fsspec_args.items())
fsspec_args_filtered(self) ==
    Join(<<", ">>, [i \in 1..Len(self.fsspec_args) |-> ArgFiltered(self.fsspec_args[i])])

\* f'{target_class}({fsspec_class.__name__}({filtered}, root_path="{root_path}")'
Describe(self) ==
    <<self.pangeo_forge_target_class, "(", self.fsspec_class, "(">>
        \o fsspec_args_filtered(self)
        \o <<", root_path=\"">> \o self.root_path \o <<"\")">>

----------------------------------------------------------------------------
(* storage.py: root_path.format(job_name=job_name) *)

Raised(kind) == [status |-> kind, value |-> <<>>]
Returned(v) == [status |-> "ok", value |-> v]

FormatErrors == {"KeyError", "ValueError", "IndexError"}

\* The end of the replacement field that starts at s[i]: the first "}" at or
\* after i, 0 when a "{" or the end of the string comes first.
RECURSIVE FieldEnd(_, _)
FieldEnd(s, i) ==
    IF i > Len(s) THEN 0
    ELSE IF s[i] = "{" THEN 0
    ELSE IF s[i] = "}" THEN i
    ELSE FieldEnd(s, i + 1)

\* The value of the field named `name` among the arguments (job_name=job).
GetField(name, job) ==
    IF name = <<"job_name">> THEN Returned(job)
    ELSE IF name = <<>> THEN Raised("IndexError")  \* "{}" is positional argument 0
    ELSE Raised("KeyError")

\* str.format scans left to right: "{{" and "}}" are escapes, a single "}" or a
\* "{" with no closing "}" is a ValueError, and a field is looked up as it is met.
RECURSIVE FormatFrom(_, _, _, _)
FormatFrom(s, i, job, acc) ==
    IF i > Len(s) THEN Returned(acc)
    ELSE IF s[i] = "{" THEN
        IF i = Len(s) THEN Raised("ValueError")
        ELSE IF s[i + 1] = "{" THEN FormatFrom(s, i + 2, job, Append(acc, "{"))
        ELSE LET e == FieldEnd(s, i + 1)
             IN  IF e = 0 THEN Raised("ValueError")
                 ELSE LET f == GetField(SubSeq(s, i + 1, e - 1), job)
                      IN  IF f.status # "ok" THEN f
                          ELSE FormatFrom(s, e + 1, job, acc \o f.value)
    ELSE IF s[i] = "}" THEN
        IF i = Len(s) \/ s[i + 1] # "}" THEN Raised("ValueError")
        ELSE FormatFrom(s, i + 2, job, Append(acc, "}"))
    ELSE FormatFrom(s, i + 1, job, Append(acc, s[i]))

Format(template, job_name) == FormatFrom(template, 1, job_name, <<>>)

----------------------------------------------------------------------------
(* storage.py: get_forge_target *)

AllTargetClasses == {"FSSpecInputTarget", "FSSpecTarget", "CacheFSSpecTarget"}

\* The versions of pangeo_forge_recipes.storage that may be installed: the
\* target classes the module has, whether they are dataclasses, and the fields
\* they declare (a dataclass accepts exactly its fields as keywords).
Installed ==
    {[classes |-> {"FSSpecTarget", "CacheFSSpecTarget"}, dataclass |-> TRUE,
      fields |-> {"fs", "root_path"}],
     [classes |-> AllTargetClasses, dataclass |-> TRUE,
      fields |-> {"fs", "root_path", "fsspec_kwargs"}],
     [classes |-> AllTargetClasses, dataclass |-> TRUE,
      fields |-> {"fs", "root_path", "_fsspec_kwargs", "enable_assume_role",
                  "assume_role_credential_kwargs"}],
     [classes |-> AllTargetClasses, dataclass |-> TRUE,
      fields |-> {"fs", "root_path", "fsspec_kwargs", "_fsspec_kwargs",
                  "enable_assume_role", "assume_role_credential_kwargs"}],
     [classes |-> AllTargetClasses, dataclass |-> TRUE,
      fields |-> {"fs", "root_path", "fsspec_kwargs", "enable_assume_role"}],
     [classes |-> AllTargetClasses, dataclass |-> FALSE, fields |-> {}]}

NoLib == [classes |-> {}, dataclass |-> FALSE, fields |-> {}]

\* fields(cls): the declared field names, or TypeError when cls is no dataclass.
FieldsLenient(storage) == Returned(storage.fields)

Fields(storage) ==
    IF storage.dataclass THEN Returned(storage.fields) ELSE Raised("TypeError")

\* The if / elif / else over the declared fields.
BranchKwargsFirst(names) ==
    IF "fsspec_kwargs" \in names THEN "b"
    ELSE IF "enable_assume_role" \in names THEN "a"
    ELSE "c"

Branch(names) ==
    IF "enable_assume_role" \in names THEN "a"
    ELSE IF "fsspec_kwargs" \in names THEN "b"
    ELSE "c"

\* self.fsspec_class(**self.fsspec_args): the filesystem instance.
Instantiate(self) == [class |-> self.fsspec_class, kwargs |-> self.fsspec_args]

NoFs == [class |-> "", kwargs |-> <<>>]

\* The keyword arguments of each call shape, beside the filesystem instance.
Keywords(self, branch, root) ==
    IF branch = "a" THEN
        [root_path |-> root,
         _fsspec_kwargs |-> self.fsspec_args,
         enable_assume_role |-> self.enable_assume_role,
         assume_role_credential_kwargs |-> self.assume_role_credential_kwargs]
    ELSE IF branch = "b" THEN
        [root_path |-> root, fsspec_kwargs |-> self.fsspec_args]
    ELSE [root_path |-> root]

NoCall == [made |-> FALSE, fs |-> NoFs, keywords |-> <<>>]

\* cls(fs, **keywords): a dataclass rejects a keyword it does not declare.
Construct(storage, fs, keywords) ==
    [status |-> IF DOMAIN keywords \subseteq storage.fields THEN "ok" ELSE "TypeError",
     call |-> [made |-> TRUE, fs |-> fs, keywords |-> keywords]]

NoTarget(kind, branch, fs) ==
    [status |-> kind, branch |-> branch, fs |-> fs, call |-> NoCall]

\* The root path handed to the target class.
ExpandedRootPath(self, job_name) == Format(self.root_path, job_name)

get_forge_target(self, job_name, storage) ==
    IF self.pangeo_forge_target_class \notin storage.classes
    THEN NoTarget("AttributeError", "none", NoFs)
    ELSE LET names == Fields(storage)
         IN  IF names.status # "ok" THEN NoTarget(names.status, "none", NoFs)
             ELSE LET branch == Branch(names.value)
                      fs == Instantiate(self)
                      root == ExpandedRootPath(self, job_name)
                  IN  IF root.status # "ok" THEN NoTarget(root.status, branch, fs)
                      ELSE LET made == Construct(storage, fs,
                                                 Keywords(self, branch, root.value))
                           IN  [status |-> made.status, branch |-> branch,
                                fs |-> fs, call |-> made.call]

----------------------------------------------------------------------------
(* The calls on a StorageTargetConfig *)

NoResult ==
    [op |-> "none", job_name |-> <<>>, storage |-> NoLib, status |-> "ok",
     default |-> FALSE, text |-> <<>>, branch |-> "none", fs |-> NoFs,
     call |-> NoCall]

\* What get_forge_target leaves of self.
AfterTargetExpanded(self, res) ==
    IF res.call.made THEN [self EXCEPT !.root_path = res.call.keywords.root_path]
    ELSE self

AfterTarget(self, res) == self

CallIsDefault ==
    /\ last' = [NoResult EXCEPT !.op = "is_default", !.default = is_default(config)]
    /\ UNCHANGED <<config, constructed, expanded, metaVars, feedVars>>

CallStr ==
    /\ last' = [NoResult EXCEPT !.op = "__str__", !.text = Describe(config)]
    /\ UNCHANGED <<config, constructed, expanded, metaVars, feedVars>>

CallGetForgeTarget ==
    \E job_name \in JobNames, storage \in Installed :
        LET res == get_forge_target(config, job_name, storage)
        IN  /\ last' = [NoResult EXCEPT !.op = "get_forge_target",
                                        !.job_name = job_name,
                                        !.storage = storage,
                                        !.status = res.status,
                                        !.branch = res.branch,
                                        !.fs = res.fs,
                                        !.call = res.call]
            /\ config' = AfterTarget(config, res)
            /\ expanded' = IF res.status = "ok" THEN expanded \cup {job_name}
                                                 ELSE expanded
            /\ UNCHANGED <<constructed, metaVars, feedVars>>

IdleStorage ==
    /\ config = TargetStorage
    /\ constructed = config
    /\ expanded = {}
    /\ last = NoResult

IdleMeta == doc = <<>> /\ meta = <<>>

IdleFeedstock == feedstock = <<>> /\ out = <<>>

\* A StorageTargetConfig and any sequence of calls on it.
Init ==
    /\ config \in Configs
    /\ constructed = config
    /\ expanded = {}
    /\ last = NoResult
    /\ IdleMeta
    /\ IdleFeedstock

Next == CallIsDefault \/ CallStr \/ CallGetForgeTarget

Spec == Init /\ [][Next]_vars

\* A StorageTargetConfig with any fsspec_args, and its string representation.
InitStr ==
    /\ config \in ConfigsWithArgs
    /\ constructed = config
    /\ expanded = {}
    /\ last = NoResult
    /\ IdleMeta
    /\ IdleFeedstock

NextStr == CallStr

SpecStr == InitStr /\ [][NextStr]_vars

----------------------------------------------------------------------------
(* Claims about StorageTargetConfig *)

GotTarget == last.op = "get_forge_target"

\* The target class exists in the installed module and is a dataclass.
Inspectable ==
    /\ config.pangeo_forge_target_class \in last.storage.classes
    /\ last.storage.dataclass

\* The placeholder {job_name}.
Placeholder == <<"{", "job_name", "}">>

HasPlaceholder(s) == \E i \in 1..Len(s) : i + 2 <= Len(s) /\ SubSeq(s, i, i + 2) = Placeholder

\* s.replace("{job_name}", job): literal substring substitution.
RECURSIVE LiteralReplace(_, _)
LiteralReplace(s, job) ==
    IF s = <<>> THEN <<>>
    ELSE IF Len(s) >= 3 /\ SubSeq(s, 1, 3) = Placeholder
         THEN job \o LiteralReplace(SubSeq(s, 4, Len(s)), job)
         ELSE <<Head(s)>> \o LiteralReplace(Tail(s), job)

\* C1: the call shape follows the declared fields by strict priority:
\* enable_assume_role selects shape (a) even beside fsspec_kwargs, else
\* fsspec_kwargs selects shape (b), else shape (c); once the root path is
\* expanded the target class is called with the filesystem instance and exactly
\* that shape's keywords, and a class of the oldest shape is constructed.
C1_ShapeByPriority ==
    (GotTarget /\ Inspectable) =>
        LET names == last.storage.fields
            shape == IF "enable_assume_role" \in names THEN "a"
                     ELSE IF "fsspec_kwargs" \in names THEN "b"
                     ELSE "c"
            root == Format(config.root_path, last.job_name)
            kw == last.call.keywords
        IN  /\ last.branch = shape
            /\ root.status = "ok" =>
                /\ last.call.made
                /\ last.call.fs = [class |-> config.fsspec_class,
                                   kwargs |-> config.fsspec_args]
                /\ kw["root_path"] = root.value
                /\ shape = "a" =>
                    /\ DOMAIN kw = {"root_path", "_fsspec_kwargs", "enable_assume_role",
                                    "assume_role_credential_kwargs"}
                    /\ kw["_fsspec_kwargs"] = config.fsspec_args
                    /\ kw["enable_assume_role"] = config.enable_assume_role
                    /\ kw["assume_role_credential_kwargs"]
                           = config.assume_role_credential_kwargs
                /\ shape = "b" =>
                    /\ DOMAIN kw = {"root_path", "fsspec_kwargs"}
                    /\ kw["fsspec_kwargs"] = config.fsspec_args
                /\ shape = "c" =>
                    /\ DOMAIN kw = {"root_path"}
                    /\ last.status = "ok"

\* A class declaring both enable_assume_role and fsspec_kwargs was called with
\* shape (a).
C1_Witness ==
    /\ GotTarget /\ Inspectable
    /\ {"enable_assume_role", "fsspec_kwargs"} \subseteq last.storage.fields
    /\ last.branch = "a"
    /\ last.call.made
    /\ last.status = "ok"

\* C2: the root path passed to the target class is the template with every
\* literal {job_name} replaced by the job name, a template without the
\* placeholder is passed unchanged whatever braces it holds, and the call never
\* fails because of the template.
C2_LiteralSubstitution ==
    (GotTarget /\ Inspectable) =>
        /\ last.status \notin FormatErrors
        /\ last.call.made
        /\ last.call.keywords["root_path"]
               = LiteralReplace(config.root_path, last.job_name)

C5_UnsupportedStorageAPIError ==
    (GotTarget /\ config.pangeo_forge_target_class \in last.storage.classes
               /\ ~last.storage.dataclass) =>
        last.status = "UnsupportedStorageAPIError"

\* C5 as amended: a target class that is not a dataclass makes get_forge_target
\* fail with the TypeError of dataclasses.fields, before any call shape is
\* chosen, any filesystem is instantiated or the class is called.
C5_TypeErrorBeforeAnyCall ==
    (GotTarget /\ config.pangeo_forge_target_class \in last.storage.classes
               /\ ~last.storage.dataclass) =>
        /\ last.status = "TypeError"
        /\ last.branch = "none"
        /\ last.fs = NoFs
        /\ ~last.call.made

C5_Witness ==
    /\ GotTarget
    /\ config.pangeo_forge_target_class \in last.storage.classes
    /\ ~last.storage.dataclass
    /\ last.status = "TypeError"

\* C10: after any sequence of calls every trait holds its value after
\* construction, and get_forge_target expands the original template.
C10_TraitsUnchanged ==
    /\ config = constructed
    /\ (GotTarget /\ last.call.made) =>
        last.call.keywords["root_path"]
            = Format(constructed.root_path, last.job_name).value

\* Targets were built for two job names from a template with the placeholder.
C10_Witness ==
    /\ GotTarget
    /\ last.call.made
    /\ expanded = JobNames
    /\ HasPlaceholder(constructed.root_path)
    /\ config = constructed

\* Two fsspec_args with the same keys in the same order and values of the same
\* types.
SameKeysAndTypes(a, b) ==
    /\ Len(a) = Len(b)
    /\ \A i \in 1..Len(a) : a[i].k = b[i].k /\ a[i].v.type = b[i].v.type

ArgContents(a) == {a[i].v.val : i \in 1..Len(a)}

\* C3: the string representation holds no value of fsspec_args: it shows each
\* entry as its key and the type name of its value, in order, and so is the
\* same for any other values of the same types under the same keys.
C3_StrHidesValues ==
    last.op = "__str__" =>
        LET a == config.fsspec_args
            shown == [i \in 1..Len(a) |-> <<a[i].k, "=<", a[i].v.type, ">">>]
        IN  /\ Tokens(last.text) \cap ArgContents(a) = {}
            /\ last.text =
                   <<config.pangeo_forge_target_class, "(", config.fsspec_class, "(">>
                       \o Join(<<", ">>, shown)
                       \o <<", root_path=\"">> \o config.root_path \o <<"\")">>
            /\ \A b \in FsspecArgs :
                   SameKeysAndTypes(a, b) =>
                       Describe([config EXCEPT !.fsspec_args = b]) = last.text

\* __str__ was called on a config whose fsspec_args hold two values.
C3_Witness ==
    /\ last.op = "__str__"
    /\ Len(config.fsspec_args) = 2
    /\ \E i \in 1..2 : config.fsspec_args[i].v.val = "hunter2"
    /\ "=<" \in Tokens(last.text)

----------------------------------------------------------------------------
(* meta_yaml.py: the values of a meta.yaml document *)

MaxList == 2
MaxKeys == 2

\* A YAML value: a scalar (str, int, none), a list of values, or a dict, whose
\* items are entries (a key and one value), in document order.
Scalar(kind, text) == [kind |-> kind, text |-> text, items |-> <<>>]
Entry(key, v) == [kind |-> "entry", text |-> key, items |-> <<v>>]
ListOf(items) == [kind |-> "list", text |-> "", items |-> items]
DictOf(entries) == [kind |-> "dict", text |-> "", items |-> entries]

Absent == Scalar("absent", "")
None == Scalar("none", "")
AString == Scalar("str", "recipe:recipes")
AnInt == Scalar("int", "7")

DistinctEntryKeys(es) == \A i, j \in 1..Len(es) : es[i].text = es[j].text => i = j

RecipeKeys == {"id", "dict_object"}
RecipeEntries == {Entry(k, v) : k \in RecipeKeys, v \in {AString, AnInt}}
RecipeDicts ==
    {DictOf(es) : es \in {e \in SeqsUpTo(RecipeEntries, MaxKeys) : DistinctEntryKeys(e)}}
RecipeLists ==
    {ListOf(items) : items \in SeqsUpTo(RecipeDicts \cup {AString, AnInt}, MaxList)}

RecipesValues == {Absent, None, AString, AnInt} \cup RecipeDicts \cup RecipeLists

TitleValues == {Absent, AString, AnInt}
DescriptionValues == {Absent, None}
ProvenanceValues ==
    {Absent, DictOf(<<Entry("license", AString)>>), DictOf(<<Entry("license", AnInt)>>)}
MaintainersValues ==
    {Absent, ListOf(<<DictOf(<<Entry("name", AString)>>)>>), ListOf(<<AString>>)}

Documents ==
    [title : TitleValues, description : DescriptionValues, recipes : RecipesValues,
     provenance : ProvenanceValues, maintainers : MaintainersValues]

----------------------------------------------------------------------------
(* meta_yaml.py: the traits of MetaYaml *)

\* Unicode(): a str.
IsUnicode(v) == v.kind = "str"

\* Dict(): any dict.
IsDict(v) == v.kind = "dict"

\* List(): any list.
IsList(v) == v.kind = "list"

\* List(Dict()): a list whose elements are all dicts.
IsListOfDict(v) == IsList(v) /\ \A i \in 1..Len(v.items) : IsDict(v.items[i])

\* Dict(per_key_traits=...): a dict whose values under the named keys are str.
IsDictWithUnicode(v, keys) ==
    /\ IsDict(v)
    /\ \A i \in 1..Len(v.items) :
           v.items[i].text \in keys => IsUnicode(v.items[i].items[1])

\* title = Unicode(allow_none=True); description likewise.
ValidTitle(v) == v = None \/ IsUnicode(v)

\* recipes = Union([List(Dict()), Dict()])
ValidRecipesAnyList(v) == IsList(v) \/ IsDict(v)

ValidRecipes(v) == IsListOfDict(v) \/ IsDict(v)

\* provenance = Dict(allow_none=True, per_key_traits={..., "license": Unicode()});
\* "providers" is a List(Dict(per_key_traits={name, description, url: Unicode()})).
ValidProvenance(v) ==
    \/ v = None
    \/ /\ IsDictWithUnicode(v, {"license"})
       /\ \A i \in 1..Len(v.items) :
              v.items[i].text = "providers" =>
                  LET ps == v.items[i].items[1]
                  IN  /\ IsList(ps)
                      /\ \A j \in 1..Len(ps.items) :
                             IsDictWithUnicode(ps.items[j], {"name", "description", "url"})

\* maintainers = List(Dict(per_key_traits={name, orcid, github: Unicode()}),
\*                    allow_none=True)
ValidMaintainers(v) ==
    \/ v = None
    \/ /\ IsList(v)
       /\ \A i \in 1..Len(v.items) :
              IsDictWithUnicode(v.items[i], {"name", "orcid", "github"})

\* The value a trait holds when the document does not set it.
Default(field) ==
    CASE field = "title" -> Scalar("str", "")
      [] field = "description" -> Scalar("str", "")
      [] field = "recipes" -> ListOf(<<>>)
      [] field = "provenance" -> DictOf(<<>>)
      [] field = "maintainers" -> ListOf(<<>>)

Valid(field, v) ==
    CASE field = "title" -> ValidTitle(v)
      [] field = "description" -> ValidTitle(v)
      [] field = "recipes" -> ValidRecipes(v)
      [] field = "provenance" -> ValidProvenance(v)
      [] field = "maintainers" -> ValidMaintainers(v)

MetaFields == {"title", "description", "recipes", "provenance", "maintainers"}

\* MetaYaml(**document): each key given is validated by its trait as it is
\* set, a key not given leaves the trait at its default.
MetaYaml(document) ==
    IF \E f \in MetaFields : document[f] # Absent /\ ~Valid(f, document[f])
    THEN [status |-> "TraitError", traits |-> <<>>]
    ELSE [status |-> "ok",
          traits |-> [f \in MetaFields |->
                        IF document[f] = Absent THEN Default(f) ELSE document[f]]]

NotValidated == [status |-> "none", traits |-> <<>>]

Validate ==
    /\ meta = NotValidated
    /\ meta' = MetaYaml(doc)
    /\ UNCHANGED <<doc, storageVars, feedVars>>

\* A meta.yaml document and its validation.
InitMeta ==
    /\ doc \in Documents
    /\ meta = NotValidated
    /\ IdleStorage
    /\ IdleFeedstock

NextMeta == Validate

SpecMeta == InitMeta /\ [][NextMeta]_vars

----------------------------------------------------------------------------
(* Claims about MetaYaml *)

Validated == meta.status # "none"

OthersValid ==
    \A f \in MetaFields \ {"recipes"} : doc[f] = Absent \/ Valid(f, doc[f])

\* A list of records.
ListOfRecords(v) ==
    v.kind = "list" /\ \A i \in 1..Len(v.items) : v.items[i].kind = "dict"

\* A single-key record whose value is a string.
SingleKeyStringRecord(v) ==
    v.kind = "dict" /\ Len(v.items) = 1 /\ v.items[1].items[1].kind = "str"

\* C6 as stated: a recipes value is accepted only when it is a list of records
\* or a single-key record whose value is a string.
C6_ExactlyTwoShapes ==
    (Validated /\ doc.recipes # Absent /\ meta.status = "ok") =>
        (ListOfRecords(doc.recipes) \/ SingleKeyStringRecord(doc.recipes))

\* C6 as amended: a recipes value is accepted exactly when it is a list whose
\* elements are all mappings or a mapping with any keys and values; any other
\* value fails with TraitError, and an accepted value is stored as given.
C6_ListOfDictsOrAnyDict ==
    (Validated /\ doc.recipes # Absent) =>
        LET v == doc.recipes
            shaped == ListOfRecords(v) \/ v.kind = "dict"
        IN  /\ ~shaped => meta.status = "TraitError"
            /\ (shaped /\ OthersValid) => meta.status = "ok"
            /\ meta.status = "ok" => (shaped /\ meta.traits["recipes"] = v)

\* A record with two keys was accepted and stored as given.
C6_Witness ==
    /\ Validated
    /\ doc.recipes.kind = "dict"
    /\ Len(doc.recipes.items) = 2
    /\ meta.status = "ok"
    /\ meta.traits["recipes"] = doc.recipes

\* C7: validation fails when the recipes key is absent, and succeeds with a
\* valid recipes value and any subset of the other fields.
C7_RecipesRequired ==
    Validated =>
        /\ doc.recipes = Absent => meta.status # "ok"
        /\ (doc.recipes # Absent /\ ValidRecipes(doc.recipes) /\ OthersValid)
               => meta.status = "ok"

----------------------------------------------------------------------------
(* Feedstock: reference resolution *)

MaxRecipes == 2

\* A reference string is a sequence of tokens: names, ":" and ".".
References ==
    {<<"recipe", ":", "recipe">>, <<"recipe", ":", "recipes">>,
     <<"recipe", ":", "missing">>, <<"nomodule", ":", "recipe">>,
     <<"no-colon-here">>}

\* A value a module attribute may hold: a runnable object or a mapping from
\* recipe ids to runnable objects, in the mapping's own order.
Object(name) == [kind |-> "object", name |-> name, entries |-> <<>>]
Mapping(entries) == [kind |-> "mapping", name |-> "", entries |-> entries]

Objects == {Object("Recipe1"), Object("Recipe2")}
RecipeIds == {"my_recipe", "aws-noaa-sst"}
Mappings == {Mapping(d) : d \in Dicts(RecipeIds, Objects, MaxRecipes)}

\* The modules beside meta.yaml: recipe.py defines `recipe` and `recipes`.
Modules ==
    {[recipe |-> [recipe |-> r, recipes |-> m]] : r \in Objects, m \in Mappings \cup Objects}

RECURSIVE IndexOf(_, _, _)
IndexOf(s, tok, i) ==
    IF i > Len(s) THEN 0 ELSE IF s[i] = tok THEN i ELSE IndexOf(s, tok, i + 1)

Failed(kind) == [status |-> kind, value |-> Object("")]
Resolved(v) == [status |-> "ok", value |-> v]

\* Attribute access along a dot-separated path, from `value`.
RECURSIVE Navigate(_, _)
Navigate(value, path) ==
    IF path = <<>> THEN Resolved(value)
    ELSE IF Head(path) = "." THEN Navigate(value, Tail(path))
    ELSE IF Head(path) \in DOMAIN value THEN Navigate(value[Head(path)], Tail(path))
    ELSE Failed("AttributeNotFound")

\* resolve(ref, baseDirectory): split on the first ":", load the module from the
\* feedstock directory, navigate the attribute path.
Resolve(ref, modules) ==
    LET colon == IndexOf(ref, ":", 1)
    IN  IF colon = 0 THEN Failed("MalformedReference")
        ELSE LET moduleId == SubSeq(ref, 1, colon - 1)
                 path == SubSeq(ref, colon + 1, Len(ref))
             IN  IF Len(moduleId) # 1 \/ moduleId[1] \notin DOMAIN modules
                 THEN Failed("ModuleNotFound")
                 ELSE Navigate(modules[moduleId[1]], path)

----------------------------------------------------------------------------
(* Feedstock: get_expanded_meta and parse_recipes *)

DICT_VALUE_PLACEHOLDER == "DICT_VALUE_PLACEHOLDER"

\* The two shapes of the recipes section.
ListEntries == [id : RecipeIds, object : References]
ListShapes == {[shape |-> "list", entries |-> es, ref |-> <<>>] :
                  es \in SeqsUpTo(ListEntries, MaxRecipes)}
DictShapes == {[shape |-> "dict", entries |-> <<>>, ref |-> r] : r \in References}

Feedstocks == [recipes : ListShapes \cup DictShapes, modules : Modules]

Yielded(kind, v) == [status |-> kind, value |-> v]

\* The single reference of a dict-shape section, resolved to a mapping.
ResolveMapping(self) ==
    LET r == Resolve(self.recipes.ref, self.modules)
    IN  IF r.status # "ok" THEN Yielded(r.status, <<>>)
        ELSE IF r.value.kind # "mapping" THEN Yielded("TypeMismatchError", <<>>)
        ELSE Yielded("ok", r.value.entries)

ExpandedEntriesWithReference(self, m) ==
    [i \in 1..Len(m) |-> [id |-> m[i].k, object |-> self.recipes.ref]]

ExpandedEntries(self, m) ==
    [i \in 1..Len(m) |-> [id |-> m[i].k, object |-> <<DICT_VALUE_PLACEHOLDER>>]]

get_expanded_meta(self) ==
    IF self.recipes.shape = "list" THEN Yielded("ok", self.recipes.entries)
    ELSE LET m == ResolveMapping(self)
         IN  IF m.status # "ok" THEN m
             ELSE Yielded("ok", ExpandedEntries(self, m.value))

HasKey(d, key) == \E i \in 1..Len(d) : d[i].k = key

\* Insert the entries one by one, each resolved as it is reached.
RECURSIVE ResolveEntries(_, _, _)
ResolveEntries(self, entries, acc) ==
    IF entries = <<>> THEN Yielded("ok", acc)
    ELSE LET e == Head(entries)
             r == Resolve(e.object, self.modules)
         IN  IF r.status # "ok" THEN Yielded(r.status, <<>>)
             ELSE IF HasKey(acc, e.id) THEN Yielded("DuplicateIdError", <<>>)
             ELSE ResolveEntries(self, Tail(entries),
                                 Append(acc, [k |-> e.id, v |-> r.value]))

AllButLast(s) == IF s = <<>> THEN <<>> ELSE SubSeq(s, 1, Len(s) - 1)

parse_recipes_dropping_last(self) ==
    IF self.recipes.shape = "list"
    THEN ResolveEntries(self, AllButLast(self.recipes.entries), <<>>)
    ELSE LET m == ResolveMapping(self)
         IN  IF m.status # "ok" THEN m
             ELSE Yielded("ok", AllButLast(m.value))

parse_recipes(self) ==
    IF self.recipes.shape = "list"
    THEN ResolveEntries(self, self.recipes.entries, <<>>)
    ELSE ResolveMapping(self)

NoOutput == [op |-> "none", status |-> "ok", value |-> <<>>]

CallGetExpandedMeta ==
    /\ LET r == get_expanded_meta(feedstock)
       IN  out' = [op |-> "get_expanded_meta", status |-> r.status, value |-> r.value]
    /\ UNCHANGED <<feedstock, storageVars, metaVars>>

CallParseRecipes ==
    /\ LET r == parse_recipes(feedstock)
       IN  out' = [op |-> "parse_recipes", status |-> r.status, value |-> r.value]
    /\ UNCHANGED <<feedstock, storageVars, metaVars>>

\* A feedstock directory and any sequence of calls on its Feedstock.
InitFeedstock ==
    /\ feedstock \in Feedstocks
    /\ out = NoOutput
    /\ IdleStorage
    /\ IdleMeta

NextFeedstock == CallGetExpandedMeta \/ CallParseRecipes

SpecFeedstock == InitFeedstock /\ [][NextFeedstock]_vars

----------------------------------------------------------------------------
(* Claims about Feedstock *)

\* The mapping a dict-shape section resolves to.
ResolvesToMapping ==
    /\ feedstock.recipes.shape = "dict"
    /\ Resolve(feedstock.recipes.ref, feedstock.modules).status = "ok"
    /\ Resolve(feedstock.recipes.ref, feedstock.modules).value.kind = "mapping"

TheMapping == Resolve(feedstock.recipes.ref, feedstock.modules).value.entries

UniqueIds(entries) ==
    \A i, j \in 1..Len(entries) : entries[i].id = entries[j].id => i = j

AllResolve(entries, modules) ==
    \A i \in 1..Len(entries) : Resolve(entries[i].object, modules).status = "ok"

=============================================================================
